---- MODULE Spec2Model ----
(***************************************************************************)
(* Model of the fireship.pro bot: the hourly poller that republishes the   *)
(* latest video (checkAndUploadNewVideo), the caption composition step     *)
(* (getSubtitles) and the timing repairer (getFixedSubtitles).             *)
(*                                                                         *)
(* Times are integers counting tenths of a second, so that the decimal     *)
(* strings of the caption track ("0.5", "1.5") parse to exact values.      *)
(***************************************************************************)
EXTENDS Integers, Sequences, FiniteSets, TLC

VARIABLES
    subtitles,          \* getFixedSubtitles: the argument (Null or an array)
    fixedSubtitles,     \* getFixedSubtitles: the array returned by the call
    refixedSubtitles,   \* the array returned when the result is repaired again
    calls,              \* how many of the two calls have returned
    feed,               \* id of the first entry of the channel's feed
    uploadedVideo,      \* ids in the uploadedVideo table, oldest uploadedAt first
    channel,            \* ids of the videos sent to the messaging channel, in order
    runs,               \* the calls of checkAndUploadNewVideo: pc, video, last id read
    textNodes,          \* getSubtitles: the <text> nodes of the caption track
    composed,           \* getSubtitles: the subtitles it returns
    stage,              \* getSubtitles: "parsed", then "composed", then "repaired"
    passed,             \* getFixedSubtitles: the argument as it was when first passed
    otherFixed,         \* the array returned to a second caller given the same array
    otherCalls,         \* how many calls of the second caller have returned
    rawText,            \* cleanSubtitleText: the argument
    entitiesDecoded,    \* cleanSubtitleText: the text after the first replace
    octalRepaired,      \* cleanSubtitleText: the text after the second replace
    cleanedText,        \* cleanSubtitleText: the string returned
    capitalizedText,    \* the string capitalize() returns for cleanedText
    phase               \* of the text: "raw", then "cleaned", then "capitalized"

repairVars == <<subtitles, fixedSubtitles, refixedSubtitles, calls>>

callerVars == <<passed, otherFixed, otherCalls>>

normalizeVars ==
    <<rawText, entitiesDecoded, octalRepaired, cleanedText, capitalizedText, phase>>

pollVars == <<feed, uploadedVideo, channel, runs>>

composeVars == <<textNodes, composed, stage>>

vars == <<subtitles, fixedSubtitles, refixedSubtitles, calls,
          feed, uploadedVideo, channel, runs, textNodes, composed, stage,
          passed, otherFixed, otherCalls, rawText, entitiesDecoded,
          octalRepaired, cleanedText, capitalizedText, phase>>

-----------------------------------------------------------------------------
(* Bounds *)

MaxLen == 3             \* longest array of subtitles drawn as an input
MaxCues == 2            \* most <text> nodes in a caption track drawn as an input
MaxRuns == 3            \* calls of checkAndUploadNewVideo the timer makes
MaxTime == 3            \* start and end times are drawn from 1..MaxTime

-----------------------------------------------------------------------------
(* JavaScript values *)

\* A value of type Subtitle[] | null is Null or Array(s), s the elements.
Null == [null |-> TRUE]
Array(s) == [array |-> s]
Undefined == [undefined |-> TRUE]
NotCalled == [notCalled |-> TRUE]

Texts == {"a", "b"}
\* getSubtitles hands over no record with a zero startTime or endTime
Times == 1..MaxTime

\* interface Subtitle { text; startTime; endTime }
Subtitle == [text : Texts, startTime : Times, endTime : Times]

SeqsUpTo(S, n) == UNION {[1..k -> S] : k \in 0..n}

Min(S) == CHOOSE m \in S : \A o \in S : m <= o

-----------------------------------------------------------------------------
(* Strings and numbers *)

\* A string is the sequence of its UTF-16 code units.  Ascii lists the
\* characters of codes 32..126 (the grave accent by name), so that Str can
\* spell a string out.
Ascii ==
    <<" ", "!", "\"", "#", "$", "%", "&", "'", "(", ")", "*", "+", ",", "-",
      ".", "/", "0", "1", "2", "3", "4", "5", "6", "7", "8", "9", ":", ";",
      "<", "=", ">", "?", "@", "A", "B", "C", "D", "E", "F", "G", "H", "I",
      "J", "K", "L", "M", "N", "O", "P", "Q", "R", "S", "T", "U", "V", "W",
      "X", "Y", "Z", "[", "\\", "]", "^", "_", "grave", "a", "b", "c", "d", "e",
      "f", "g", "h", "i", "j", "k", "l", "m", "n", "o", "p", "q", "r", "s",
      "t", "u", "v", "w", "x", "y", "z", "{", "|", "}", "~">>

Code(c) == 31 + (CHOOSE i \in 1..Len(Ascii) : Ascii[i] = c)

Str(chars) == [i \in 1..Len(chars) |-> Code(chars[i])]

IsDigit(c) == c \in 48..57                          \* [0-9], \d
IsLetter(c) == c \in 65..90 \/ c \in 97..122        \* [a-zA-Z]
IsAlnum(c) == IsDigit(c) \/ IsLetter(c)             \* [a-zA-Z0-9]

\* the part of s from index i on: s.slice(i - 1)
Slice(s, i) == SubSeq(s, i, Len(s))

\* how many elements of s from index i on are in a row in the class
RunLength(s, i, InClass(_)) ==
    LET stops == {j \in i..Len(s) : ~InClass(s[j])}
    IN IF stops # {} THEN Min(stops) - i
       ELSE IF i > Len(s) THEN 0
       ELSE Len(s) - i + 1

IsHexDigit(c) == IsDigit(c) \/ c \in 65..70 \/ c \in 97..102
IsOctalDigit(c) == c \in 48..55

DigitValue(c) == IF c <= 57 THEN c - 48 ELSE IF c <= 70 THEN c - 55 ELSE c - 87

\* the number the digits s[i], ..., s[i + n - 1] spell in the base
RECURSIVE NumberValue(_, _, _, _)
NumberValue(s, i, n, base) ==
    IF n = 0 THEN 0
    ELSE NumberValue(s, i, n - 1, base) * base + DigitValue(s[i + n - 1])

\* A number is an integer count of tenths; NaN is an integer no parse yields.
NaN == -1000000

Plus_nanAsZero(a, b) == (IF a = NaN THEN 0 ELSE a) + (IF b = NaN THEN 0 ELSE b)

\* a + b for numbers
Plus(a, b) == IF a = NaN \/ b = NaN THEN NaN ELSE a + b

\* !x for a number x: true of 0 and of NaN
Falsy(x) == x = 0 \/ x = NaN

\* the white space and line terminators parseFloat and trim skip
IsWhiteSpace(c) ==
    c \in {9, 10, 11, 12, 13, 32, 160, 5760, 8232, 8233, 8239, 8287, 12288,
           65279} \cup (8192..8202)

\* Number.parseFloat: skip white space, then read the longest prefix that is
\* a decimal literal (sign, digits, a point and digits); NaN when there is
\* none.  Exponents and "Infinity" are not modelled; of the fraction the
\* first digit counts (the strings drawn have at most one).
parseFloat(str) ==
    LET b == 1 + RunLength(str, 1, IsWhiteSpace)
        signed == b <= Len(str) /\ str[b] \in {Code("+"), Code("-")}
        i == IF signed THEN b + 1 ELSE b
        n == RunLength(str, i, IsDigit)
        point == i + n <= Len(str) /\ str[i + n] = Code(".")
        m == IF point THEN RunLength(str, i + n + 1, IsDigit) ELSE 0
        magnitude == NumberValue(str, i, n, 10) * 10
                        + (IF m > 0 THEN str[i + n + 1] - 48 ELSE 0)
    IN IF n = 0 /\ m = 0 THEN NaN
       ELSE IF signed /\ str[b] = Code("-") THEN 0 - magnitude
       ELSE magnitude

-----------------------------------------------------------------------------
(* cleanSubtitleText and capitalize *)

\* The named character references the model knows, a part of the HTML table:
\* the name, the character, and whether the name also counts without its
\* semicolon.  The texts drawn use these names or names that no HTML name is
\* a prefix of.
NamedReferences ==
    { [name |-> Str(<<"a", "m", "p">>), char |-> 38, legacy |-> TRUE],
      [name |-> Str(<<"l", "t">>), char |-> 60, legacy |-> TRUE],
      [name |-> Str(<<"g", "t">>), char |-> 62, legacy |-> TRUE],
      [name |-> Str(<<"q", "u", "o", "t">>), char |-> 34, legacy |-> TRUE],
      [name |-> Str(<<"n", "b", "s", "p">>), char |-> 160, legacy |-> TRUE],
      [name |-> Str(<<"a", "p", "o", "s">>), char |-> 39, legacy |-> FALSE] }

\* what a numeric character reference of this value stands for
Windows1252 ==
    [v \in 128..159 |->
        CASE v = 128 -> 8364 [] v = 130 -> 8218 [] v = 131 -> 402
          [] v = 132 -> 8222 [] v = 133 -> 8230 [] v = 134 -> 8224
          [] v = 135 -> 8225 [] v = 136 -> 710 [] v = 137 -> 8240
          [] v = 138 -> 352 [] v = 139 -> 8249 [] v = 140 -> 338
          [] v = 142 -> 381 [] v = 145 -> 8216 [] v = 146 -> 8217
          [] v = 147 -> 8220 [] v = 148 -> 8221 [] v = 149 -> 8226
          [] v = 150 -> 8211 [] v = 151 -> 8212 [] v = 152 -> 732
          [] v = 153 -> 8482 [] v = 154 -> 353 [] v = 155 -> 8250
          [] v = 156 -> 339 [] v = 158 -> 382 [] v = 159 -> 376
          [] OTHER -> v]

NumericReference(v) ==
    IF v = 0 \/ v > 1114111 \/ v \in 55296..57343 THEN <<65533>>
    ELSE IF v \in 128..159 THEN <<Windows1252[v]>>
    ELSE IF v > 65535
        THEN <<55296 + ((v - 65536) \div 1024), 56320 + ((v - 65536) % 1024)>>
    ELSE <<v>>

\* the characters the HTML tokenizer yields for "&" entity ";", entity being
\* what the pattern captured: "#" and letters and digits, or letters and digits
CharacterReference(entity) ==
    LET verbatim == <<38>> \o entity \o <<59>>
        numeric == entity[1] = 35
        hex == numeric /\ Len(entity) >= 2 /\ entity[2] \in {88, 120}
        from == IF hex THEN 3 ELSE 2
        n == IF hex THEN RunLength(entity, from, IsHexDigit)
             ELSE RunLength(entity, from, IsDigit)
        rest == Slice(entity, from + n)
        named == {ref \in NamedReferences : ref.name = entity}
        prefixes == {ref \in NamedReferences :
                        /\ ref.legacy
                        /\ Len(ref.name) < Len(entity)
                        /\ SubSeq(entity, 1, Len(ref.name)) = ref.name}
        longest == CHOOSE ref \in prefixes :
                      \A o \in prefixes : Len(o.name) <= Len(ref.name)
    IN IF numeric
       THEN IF n = 0 THEN verbatim
            ELSE NumericReference(NumberValue(entity, from, n,
                                              IF hex THEN 16 ELSE 10))
                    \o (IF rest = <<>> THEN <<>> ELSE rest \o <<59>>)
       ELSE IF named # {} THEN <<(CHOOSE ref \in named : TRUE).char>>
       ELSE IF prefixes # {}
            THEN <<longest.char>> \o Slice(entity, Len(longest.name) + 1)
                    \o <<59>>
       ELSE verbatim

\* new DOMParser().parseFromString(`&${entity};`, "text/html").body
\* .textContent: the parser drops the white space before the body's first
\* character
decodedEntity(entity) ==
    LET chars == CharacterReference(entity)
        IsHtmlSpace(c) == c \in {9, 10, 12, 13, 32}
    IN Slice(chars, 1 + RunLength(chars, 1, IsHtmlSpace))

\* the length of the match of /&(#?[a-zA-Z0-9]+);/ at index i of s, 0 for none
EntityMatch(s, i) ==
    LET h == IF i + 1 <= Len(s) /\ s[i + 1] = 35 THEN 1 ELSE 0
        n == RunLength(s, i + 1 + h, IsAlnum)
    IN IF s[i] = 38 /\ n >= 1 /\ i + 1 + h + n <= Len(s)
          /\ s[i + 1 + h + n] = 59
       THEN 2 + h + n ELSE 0

RECURSIVE replaceEntities(_, _)
\* .replace(/&(#?[a-zA-Z0-9]+);/g, (match, entity) => decoded || match),
\* from index i on
replaceEntities(s, i) ==
    IF i > Len(s) THEN <<>>
    ELSE LET n == EntityMatch(s, i)
             match == SubSeq(s, i, i + n - 1)
             decoded == decodedEntity(SubSeq(s, i + 1, i + n - 2))
         IN IF n = 0 THEN <<s[i]>> \o replaceEntities(s, i + 1)
            ELSE (IF decoded = <<>> THEN match ELSE decoded)
                    \o replaceEntities(s, i + n)

octalChar_decimal(octal) == NumberValue(octal, 1, Len(octal), 10) % 65536

\* String.fromCharCode(Number.parseInt(octal, 8)): parseInt reads the digits
\* up to the first 8 or 9 and gives NaN when there is none; fromCharCode
\* makes code 0 of NaN
octalChar(octal) ==
    LET n == RunLength(octal, 1, IsOctalDigit)
    IN IF n = 0 THEN 0 ELSE NumberValue(octal, 1, n, 8) % 65536

\* does /\\(\d{3})([a-zA-Z])/ match at index i of s
OctalMatch(s, i) ==
    /\ i + 4 <= Len(s)
    /\ s[i] = 92
    /\ IsDigit(s[i + 1]) /\ IsDigit(s[i + 2]) /\ IsDigit(s[i + 3])
    /\ IsLetter(s[i + 4])

RECURSIVE replaceOctal(_, _)
\* .replace(/\\(\d{3})([a-zA-Z])/g, (_, octal, char) => decodedChar + char),
\* from index i on
replaceOctal(s, i) ==
    IF i > Len(s) THEN <<>>
    ELSE IF OctalMatch(s, i)
        THEN <<octalChar(SubSeq(s, i + 1, i + 3)), s[i + 4]>>
                \o replaceOctal(s, i + 5)
    ELSE <<s[i]>> \o replaceOctal(s, i + 1)

trim_start(s) ==
    LET kept == {j \in 1..Len(s) : ~IsWhiteSpace(s[j])}
    IN IF kept = {} THEN <<>> ELSE SubSeq(s, Min(kept), Len(s))

\* String.prototype.trim
trim(s) ==
    LET kept == {j \in 1..Len(s) : ~IsWhiteSpace(s[j])}
    IN IF kept = {} THEN <<>>
       ELSE SubSeq(s, Min(kept), CHOOSE m \in kept : \A o \in kept : o <= m)

cleanSubtitleText(text) == trim(replaceOctal(replaceEntities(text, 1), 1))

\* toUpperCase of one code unit below 256 (the sharp s becomes SS); the code
\* units from 256 on are left as they are
toUpperCase(c) ==
    IF c \in 97..122 \/ (c \in 224..254 /\ c # 247) THEN <<c - 32>>
    ELSE IF c = 181 THEN <<924>>
    ELSE IF c = 223 THEN <<83, 83>>
    ELSE IF c = 255 THEN <<376>>
    ELSE <<c>>

\* String.prototype.capitalize: charAt(0).toUpperCase() + slice(1)
capitalize(s) ==
    IF Len(s) = 0 THEN <<>> ELSE toUpperCase(s[1]) \o Slice(s, 2)

-----------------------------------------------------------------------------
(* getSubtitles: from the <text> nodes of the caption track to subtitles *)

\* $(node).attr(name) || fallback: the fallback stands in for an attribute
\* that is missing or empty
attrOr(node, name, fallback) ==
    IF name \notin DOMAIN node.attribs THEN fallback
    ELSE IF node.attribs[name] = <<>> THEN fallback
    ELSE node.attribs[name]

\* if (!startTime || !endTime) return null
dropped_startOnly(startTime, endTime) == Falsy(startTime)

dropped(startTime, endTime) == Falsy(startTime) \/ Falsy(endTime)

\* the callback of textNodes.map
subtitleOf(node) ==
    LET text == capitalize(cleanSubtitleText(node.text))
        startString == attrOr(node, "start", Str(<<"0">>))
        durationString == attrOr(node, "dur", Str(<<"0">>))
        startTime == parseFloat(startString)
        endTime == Plus(startTime, parseFloat(durationString))
    IN IF dropped(startTime, endTime) THEN Null
       ELSE [text |-> text, startTime |-> startTime, endTime |-> endTime]

\* textNodes.map(...).get() and then .filter((subtitle) => subtitle !== null)
getSubtitles(nodes) ==
    SelectSeq([k \in 1..Len(nodes) |-> subtitleOf(nodes[k])],
              LAMBDA subtitle : subtitle # Null)

-----------------------------------------------------------------------------
(* getFixedSubtitles *)

comparefn_descending(a, b) == b.startTime - a.startTime

comparefn_byEndTime(a, b) == a.endTime - b.endTime

\* the comparator handed to sort: (a, b) => a.startTime - b.startTime
comparefn(a, b) == a.startTime - b.startTime

\* Array.prototype.sort orders undefined elements last without calling the
\* comparator, and otherwise orders by the comparator's sign.
SortCompare(x, y) ==
    IF x = Undefined /\ y = Undefined THEN 0
    ELSE IF x = Undefined THEN 1
    ELSE IF y = Undefined THEN -1
    ELSE comparefn(x, y)

SortInsert_unstable(s, x) ==
    LET notLess == {j \in 1..Len(s) : SortCompare(s[j], x) >= 0}
        p == IF notLess = {} THEN Len(s) + 1 ELSE Min(notLess)
    IN SubSeq(s, 1, p - 1) \o <<x>> \o SubSeq(s, p, Len(s))

\* One step of the stable sort: x, which followed every element of s in the
\* array, goes before the first element that compares greater than it.
SortInsert(s, x) ==
    LET greater == {j \in 1..Len(s) : SortCompare(s[j], x) > 0}
        p == IF greater = {} THEN Len(s) + 1 ELSE Min(greater)
    IN SubSeq(s, 1, p - 1) \o <<x>> \o SubSeq(s, p, Len(s))

RECURSIVE SortArray(_)
\* [...subtitles].sort(comparefn): a sorted copy; the sort is stable.
SortArray(s) ==
    IF Len(s) = 0 THEN <<>>
    ELSE SortInsert(SortArray(SubSeq(s, 1, Len(s) - 1)), s[Len(s)])

adjusted_endKept(current, next) == current

adjusted_nextSpread(current, next) == [next EXCEPT !.endTime = next.startTime]

\* the record pushed in the loop body: { ...current, endTime: next.startTime }
adjusted(current, next) == [current EXCEPT !.endTime = next.startTime]

lastSubtitle_clipped(sortedSubtitles) ==
    IF Len(sortedSubtitles) = 0 THEN Undefined
    ELSE [sortedSubtitles[Len(sortedSubtitles)] EXCEPT
             !.endTime = sortedSubtitles[Len(sortedSubtitles)].startTime]

\* the element pushed after the loop: sortedSubtitles[length - 1], which is
\* undefined when the array is empty
lastSubtitle(sortedSubtitles) ==
    IF Len(sortedSubtitles) = 0 THEN Undefined
    ELSE sortedSubtitles[Len(sortedSubtitles)]

\* the array passed, after the call: [...subtitles] copies it before .sort(),
\* which sorts in place, and { ...current, endTime } copies each record
argumentAfter_sortedInPlace(subs) ==
    IF subs = Null THEN Null ELSE Array(SortArray(subs.array))

argumentAfter(subs) == subs

getFixedSubtitles_unsorted(subs) ==
    IF subs = Null THEN <<>>
    ELSE LET sortedSubtitles == subs.array
             n == Len(sortedSubtitles)
             looped == [i \in 1..(n - 1) |->
                          adjusted(sortedSubtitles[i], sortedSubtitles[i + 1])]
         IN Append(looped, lastSubtitle(sortedSubtitles))

\* getFixedSubtitles(subtitles): the array returned
getFixedSubtitles(subs) ==
    IF subs = Null THEN <<>>
    ELSE LET sortedSubtitles == SortArray(subs.array)
             n == Len(sortedSubtitles)
             looped == [i \in 1..(n - 1) |->
                          adjusted(sortedSubtitles[i], sortedSubtitles[i + 1])]
         IN Append(looped, lastSubtitle(sortedSubtitles))

-----------------------------------------------------------------------------
(* The poller: main starts checkAndUploadNewVideo once and then on every    *)
(* tick of the hourly timer; a call is suspended at each await, where the   *)
(* other calls and the feed can move.                                       *)

Videos == {"v1", "v2"}
NoVideo == "null"           \* getLatestFireshipVideo returned null
NoId == ""                  \* getLastUploadedVideoId found no row

Run == 1..MaxRuns

IdleRun ==
    [pc |-> "idle", video |-> NoVideo, lastUploadedVideoId |-> NoId,
     failedAt |-> "none", uploaded |-> FALSE, persisted |-> FALSE]

PollIdle ==
    /\ feed = "v1"
    /\ uploadedVideo = <<>>
    /\ channel = <<>>
    /\ runs = [r \in Run |-> IdleRun]

RepairIdle ==
    /\ subtitles = Null
    /\ fixedSubtitles = NotCalled
    /\ refixedSubtitles = NotCalled
    /\ calls = 0
    /\ passed = Null
    /\ otherFixed = NotCalled
    /\ otherCalls = 0

NormalizeIdle ==
    /\ rawText = <<>>
    /\ entitiesDecoded = NotCalled
    /\ octalRepaired = NotCalled
    /\ cleanedText = NotCalled
    /\ capitalizedText = NotCalled
    /\ phase = "idle"

\* prisma.uploadedVideo.findFirst({ orderBy: { uploadedAt: "desc" } })?.id ?? ""
getLastUploadedVideoId(table) ==
    IF Len(table) = 0 THEN NoId ELSE table[Len(table)]

\* prisma.uploadedVideo.upsert: the row of videoId gets the newest uploadedAt,
\* whether it is created or updated
setLastUploadedVideoId(table, videoId) ==
    Append(SelectSeq(table, LAMBDA id : id # videoId), videoId)

\* the call is over: it returned, or its promise was rejected
Finish(r) == runs' = [runs EXCEPT ![r].pc = "done"]

\* the awaited step rejects: the call is over (in the catch block, or with
\* the rejection unhandled), and the run keeps which step it was
Fail(r, step) == runs' = [runs EXCEPT ![r].pc = "done", ![r].failedAt = step]

Goto(r, label) == runs' = [runs EXCEPT ![r].pc = label]

\* setInterval(checkAndUploadNewVideo, 60 * 60 * 1000) and the call in main:
\* the next call starts whether or not the earlier ones are over
Tick(r) ==
    /\ runs[r].pc = "idle"
    /\ \A q \in Run : q < r => runs[q].pc # "idle"
    /\ Goto(r, "getLatestFireshipVideo")
    /\ UNCHANGED <<feed, uploadedVideo, channel>>
    /\ UNCHANGED <<repairVars, callerVars, composeVars, normalizeVars>>

\* the channel publishes another video, or withdraws its latest one
FeedChanges(v) ==
    /\ v # feed
    /\ feed' = v
    /\ UNCHANGED <<uploadedVideo, channel, runs>>
    /\ UNCHANGED <<repairVars, callerVars, composeVars, normalizeVars>>

\* const video = await getLatestFireshipVideo(); if (!video) return;
GetLatestFireshipVideo(r) ==
    /\ runs[r].pc = "getLatestFireshipVideo"
    /\ \/ runs' = [runs EXCEPT ![r].video = feed,
                                ![r].pc = "getLastUploadedVideoId"]
       \/ Finish(r)
    /\ UNCHANGED <<feed, uploadedVideo, channel>>
    /\ UNCHANGED <<repairVars, callerVars, composeVars, normalizeVars>>

\* const lastUploadedVideoId = await getLastUploadedVideoId();
\* if (video.id === lastUploadedVideoId) return;
GetLastUploadedVideoId(r) ==
    /\ runs[r].pc = "getLastUploadedVideoId"
    /\ \/ LET last == getLastUploadedVideoId(uploadedVideo)
          IN runs' = [runs EXCEPT
                        ![r].lastUploadedVideoId = last,
                        ![r].pc = IF runs[r].video = last THEN "done"
                                  ELSE "getSubtitles"]
       \/ Fail(r, "getLastUploadedVideoId")
    /\ UNCHANGED <<feed, uploadedVideo, channel>>
    /\ UNCHANGED <<repairVars, callerVars, composeVars, normalizeVars>>

\* await getSubtitles(video.id); getFixedSubtitles(subtitles)
GetSubtitles(r) ==
    /\ runs[r].pc = "getSubtitles"
    /\ \/ Goto(r, "downloadVideo")
       \/ Fail(r, "getSubtitles")
    /\ UNCHANGED <<feed, uploadedVideo, channel>>
    /\ UNCHANGED <<repairVars, callerVars, composeVars, normalizeVars>>

\* await downloadVideo(video.id)
DownloadVideo(r) ==
    /\ runs[r].pc = "downloadVideo"
    /\ \/ Goto(r, "addSubtitlesToVideo")
       \/ Fail(r, "downloadVideo")
    /\ UNCHANGED <<feed, uploadedVideo, channel>>
    /\ UNCHANGED <<repairVars, callerVars, composeVars, normalizeVars>>

\* await addSubtitlesToVideo(videoPath, fixedSubtitles)
AddSubtitlesToVideo(r) ==
    /\ runs[r].pc = "addSubtitlesToVideo"
    /\ \/ Goto(r, "uploadVideoToTelegram")
       \/ Fail(r, "addSubtitlesToVideo")
    /\ UNCHANGED <<feed, uploadedVideo, channel>>
    /\ UNCHANGED <<repairVars, callerVars, composeVars, normalizeVars>>

UploadVideoToTelegram_failureSwallowed(r) ==
    /\ runs[r].pc = "uploadVideoToTelegram"
    /\ \/ /\ channel' = Append(channel, runs[r].video)
          /\ runs' = [runs EXCEPT ![r].pc = "setLastUploadedVideoId",
                                   ![r].uploaded = TRUE]
       \/ /\ channel' = channel
          /\ runs' = [runs EXCEPT ![r].pc = "setLastUploadedVideoId",
                                   ![r].failedAt = "uploadVideoToTelegram"]
       \/ /\ channel' = Append(channel, runs[r].video)
          /\ Fail(r, "uploadVideoToTelegram")
    /\ UNCHANGED <<feed, uploadedVideo>>
    /\ UNCHANGED <<repairVars, callerVars, composeVars, normalizeVars>>

\* await uploadVideoToTelegram(videoWithSubsPath, video, fixedSubtitles):
\* it returns after sendVideo and unlinkSync; it throws before the message is
\* sent (summarizeDescription, sendVideo) or after it (unlinkSync)
UploadVideoToTelegram(r) ==
    /\ runs[r].pc = "uploadVideoToTelegram"
    /\ \/ /\ channel' = Append(channel, runs[r].video)
          /\ runs' = [runs EXCEPT ![r].pc = "setLastUploadedVideoId",
                                   ![r].uploaded = TRUE]
       \/ /\ channel' = channel
          /\ Fail(r, "uploadVideoToTelegram")
       \/ /\ channel' = Append(channel, runs[r].video)
          /\ Fail(r, "uploadVideoToTelegram")
    /\ UNCHANGED <<feed, uploadedVideo>>
    /\ UNCHANGED <<repairVars, callerVars, composeVars, normalizeVars>>

\* await setLastUploadedVideoId(video.id)
SetLastUploadedVideoId(r) ==
    /\ runs[r].pc = "setLastUploadedVideoId"
    /\ \/ /\ uploadedVideo' = setLastUploadedVideoId(uploadedVideo, runs[r].video)
          /\ runs' = [runs EXCEPT ![r].pc = "done", ![r].persisted = TRUE]
       \/ /\ uploadedVideo' = uploadedVideo
          /\ Fail(r, "setLastUploadedVideoId")
    /\ UNCHANGED <<feed, channel>>
    /\ UNCHANGED <<repairVars, callerVars, composeVars, normalizeVars>>

ComposeIdle ==
    /\ textNodes = <<>>
    /\ composed = NotCalled
    /\ stage = "idle"

Init == PollIdle /\ RepairIdle /\ ComposeIdle /\ NormalizeIdle

Next ==
    \/ \E r \in Run : Tick(r)
    \/ \E v \in Videos : FeedChanges(v)
    \/ \E r \in Run : GetLatestFireshipVideo(r)
    \/ \E r \in Run : GetLastUploadedVideoId(r)
    \/ \E r \in Run : GetSubtitles(r)
    \/ \E r \in Run : DownloadVideo(r)
    \/ \E r \in Run : AddSubtitlesToVideo(r)
    \/ \E r \in Run : UploadVideoToTelegram(r)
    \/ \E r \in Run : SetLastUploadedVideoId(r)

Spec == Init /\ [][Next]_vars

\* how many messages of the channel carry video v
Published(v) == Cardinality({k \in 1..Len(channel) : channel[k] = v})

\* C1: no video is sent to the messaging channel more than once.
C1_NeverReposts == \A v \in Videos : Published(v) <= 1

-----------------------------------------------------------------------------
(* Specification of the timing repairer: a caller passes an array (or null) *)
(* and then passes the result back in.                                      *)

RepairInit ==
    /\ \/ subtitles = Null
       \/ \E k \in 0..MaxLen : \E s \in [1..k -> Subtitle] : subtitles = Array(s)
    /\ fixedSubtitles = NotCalled
    /\ refixedSubtitles = NotCalled
    /\ calls = 0
    /\ passed = subtitles
    /\ otherFixed = NotCalled
    /\ otherCalls = 0
    /\ PollIdle
    /\ ComposeIdle
    /\ NormalizeIdle

Repair ==
    /\ calls = 0
    /\ fixedSubtitles' = getFixedSubtitles(subtitles)
    /\ subtitles' = argumentAfter(subtitles)
    /\ calls' = 1
    /\ UNCHANGED <<refixedSubtitles, callerVars>>
    /\ UNCHANGED <<pollVars, composeVars, normalizeVars>>

RepairAgain ==
    /\ calls = 1
    /\ refixedSubtitles' = getFixedSubtitles(Array(fixedSubtitles))
    /\ calls' = 2
    /\ UNCHANGED <<subtitles, fixedSubtitles, callerVars>>
    /\ UNCHANGED <<pollVars, composeVars, normalizeVars>>

RepairNext == Repair \/ RepairAgain

\* a second caller that holds the same array calls getFixedSubtitles on it;
\* a call runs to its end before another starts, in either order
RepairSame ==
    /\ otherCalls = 0
    /\ otherFixed' = getFixedSubtitles(subtitles)
    /\ subtitles' = argumentAfter(subtitles)
    /\ otherCalls' = 1
    /\ UNCHANGED <<fixedSubtitles, refixedSubtitles, calls, passed>>
    /\ UNCHANGED <<pollVars, composeVars, normalizeVars>>

CallersNext == Repair \/ RepairSame

SpecCallers == RepairInit /\ [][CallersNext]_vars

SpecRepair == RepairInit /\ [][RepairNext]_vars

-----------------------------------------------------------------------------
(* Specification of the composition: getSubtitles maps and filters the      *)
(* <text> nodes of a caption track, and checkAndUploadNewVideo passes the   *)
(* subtitles to getFixedSubtitles.                                          *)

RawTexts == { Str(<<"&", "a", "m", "p", ";", "h", "i">>), Str(<<"b", "y", "e">>) }

StartStrings ==
    { <<>>, Str(<<"0">>), Str(<<"1">>), Str(<<"2">>), Str(<<"x">>) }

DurStrings ==
    { Str(<<"0", ".", "5">>), Str(<<"1">>), Str(<<"-", "1">>), Str(<<"x">>) }

\* the attributes of a <text> node: start and dur, each present or not
NodeAttribs ==
    {[start |-> s, dur |-> d] : s \in StartStrings, d \in DurStrings}
        \cup {[start |-> s] : s \in StartStrings}
        \cup {[dur |-> d] : d \in DurStrings}
        \cup {<<>>}

TextNode == [text : RawTexts, attribs : NodeAttribs]

ComposeInit ==
    /\ textNodes \in SeqsUpTo(TextNode, MaxCues)
    /\ composed = NotCalled
    /\ stage = "parsed"
    /\ PollIdle
    /\ RepairIdle
    /\ NormalizeIdle

\* const subtitles = await getSubtitles(video.id), from the parsed track on
Compose ==
    /\ stage = "parsed"
    /\ composed' = getSubtitles(textNodes)
    /\ stage' = "composed"
    /\ UNCHANGED textNodes
    /\ UNCHANGED <<repairVars, callerVars, pollVars, normalizeVars>>

\* const fixedSubtitles = getFixedSubtitles(subtitles)
RepairComposed ==
    /\ stage = "composed"
    /\ subtitles' = argumentAfter(Array(composed))
    /\ fixedSubtitles' = getFixedSubtitles(Array(composed))
    /\ calls' = 1
    /\ stage' = "repaired"
    /\ passed' = Array(composed)
    /\ UNCHANGED <<refixedSubtitles, otherFixed, otherCalls, textNodes, composed>>
    /\ UNCHANGED <<pollVars, normalizeVars>>

ComposeNext == Compose \/ RepairComposed

SpecCompose == ComposeInit /\ [][ComposeNext]_vars

\* what the callback of getSubtitles parses out of a node
StartTimeOf(node) == parseFloat(attrOr(node, "start", Str(<<"0">>)))
EndTimeOf(node) ==
    Plus(StartTimeOf(node), parseFloat(attrOr(node, "dur", Str(<<"0">>))))

TimingOf(node) == [startTime |-> StartTimeOf(node), endTime |-> EndTimeOf(node)]

\* the (startTime, endTime) pairs of the nodes of s that pass the test
TimingsKept(s, Test(_)) ==
    LET kept == SelectSeq(s, Test)
    IN [k \in 1..Len(kept) |-> TimingOf(kept[k])]

Timings(subs) ==
    [k \in 1..Len(subs) |->
        [startTime |-> subs[k].startTime, endTime |-> subs[k].endTime]]

\* C10 as stated: the nodes that getSubtitles drops are exactly those whose
\* parsed startTime is 0 or whose endTime is 0.
C10_DroppedExactlyOnZero ==
    stage # "parsed" =>
        Timings(composed) =
            TimingsKept(textNodes,
                        LAMBDA node : ~(StartTimeOf(node) = 0 \/ EndTimeOf(node) = 0))

\* C10 amended: the nodes that getSubtitles drops are exactly those whose
\* parsed startTime or computed endTime is 0 or NaN, and every record passed
\* to getFixedSubtitles has a startTime and an endTime that are not 0.
C10_DroppedExactlyOnFalsy ==
    /\ stage # "parsed" =>
          Timings(composed) =
              TimingsKept(textNodes,
                          LAMBDA node : /\ StartTimeOf(node) \notin {0, NaN}
                                        /\ EndTimeOf(node) \notin {0, NaN})
    /\ stage = "repaired" =>
          \A k \in 1..Len(subtitles.array) :
              /\ subtitles.array[k].startTime \notin {0, NaN}
              /\ subtitles.array[k].endTime \notin {0, NaN}

\* a track of which getSubtitles keeps a node and drops another, whose start
\* parses to a number other than 0 and whose dur does not parse
C10_Witness ==
    /\ stage = "repaired"
    /\ Len(subtitles.array) >= 1
    /\ Len(subtitles.array) < Len(textNodes)
    /\ \E k \in 1..Len(textNodes) :
          /\ StartTimeOf(textNodes[k]) \notin {0, NaN}
          /\ EndTimeOf(textNodes[k]) = NaN

\* the number an attribute string spells, for the strings drawn that spell one
IsDecimal(str) ==
    str \in { Str(<<"0">>), Str(<<"1">>), Str(<<"2">>), Str(<<"0", ".", "5">>),
              Str(<<"-", "1">>) }

Spelled(str) ==
    CASE str = Str(<<"0">>) -> 0
      [] str = Str(<<"1">>) -> 10
      [] str = Str(<<"2">>) -> 20
      [] str = Str(<<"0", ".", "5">>) -> 5
      [] str = Str(<<"-", "1">>) -> -10

IsMissing(node, name) ==
    name \notin DOMAIN node.attribs \/ node.attribs[name] = <<>>

\* the value of an attribute when what does not parse counts as 0
ValueOrZero(node, name) ==
    IF IsMissing(node, name) THEN 0
    ELSE IF IsDecimal(node.attribs[name]) THEN Spelled(node.attribs[name])
    ELSE 0

\* the value of an attribute when what does not parse is NaN
ValueOrNaN(node, name) ==
    IF IsMissing(node, name) THEN 0
    ELSE IF IsDecimal(node.attribs[name]) THEN Spelled(node.attribs[name])
    ELSE NaN

\* the (startTime, endTime) pairs of the nodes of s, endTime being the sum of
\* the values of start and dur, without the pairs that have a 0 or a NaN
SummedTimings(s, Value(_, _)) ==
    LET Sum(a, b) == IF NaN \in {a, b} THEN NaN ELSE a + b
        pairs == [k \in 1..Len(s) |->
                    [startTime |-> Value(s[k], "start"),
                     endTime |-> Sum(Value(s[k], "start"), Value(s[k], "dur"))]]
    IN SelectSeq(pairs, LAMBDA pair : /\ pair.startTime \notin {0, NaN}
                                      /\ pair.endTime \notin {0, NaN})

\* C11 as stated: a start or dur that is missing or does not parse counts as
\* 0 in endTime = startTime + duration, so that a node with a start other
\* than 0 and an unparsable dur is kept with endTime = startTime.
C11_UnparsableAsZero ==
    stage # "parsed" => Timings(composed) = SummedTimings(textNodes, ValueOrZero)

\* C11 amended: a start or dur that is missing or empty counts as 0; one that
\* does not parse is NaN and makes endTime NaN, so that the node is dropped.
C11_MissingAsZero ==
    stage # "parsed" => Timings(composed) = SummedTimings(textNodes, ValueOrNaN)

\* a track of two nodes with a start other than 0: the one without a dur is
\* kept with endTime = startTime, the one whose dur does not parse is dropped
C11_Witness ==
    /\ stage # "parsed"
    /\ Len(textNodes) = 2
    /\ \A k \in 1..2 : /\ ~IsMissing(textNodes[k], "start")
                       /\ IsDecimal(textNodes[k].attribs.start)
                       /\ Spelled(textNodes[k].attribs.start) # 0
    /\ IsMissing(textNodes[1], "dur")
    /\ ~IsMissing(textNodes[2], "dur") /\ ~IsDecimal(textNodes[2].attribs.dur)
    /\ Len(composed) = 1
    /\ composed[1].endTime = composed[1].startTime

\* the raw cues ("&amp;hi", start 2, dur 1), ("bye", start 1, dur 0.5)
ExampleNodes ==
    << [text |-> Str(<<"&", "a", "m", "p", ";", "h", "i">>),
        attribs |-> [start |-> Str(<<"2">>), dur |-> Str(<<"1">>)]],
       [text |-> Str(<<"b", "y", "e">>),
        attribs |-> [start |-> Str(<<"1">>), dur |-> Str(<<"0", ".", "5">>)]] >>

\* ("Bye", 1, 2), ("&Hi", 2, 3)
ExampleResult ==
    << [text |-> Str(<<"B", "y", "e">>), startTime |-> 10, endTime |-> 20],
       [text |-> Str(<<"&", "H", "i">>), startTime |-> 20, endTime |-> 30] >>

\* C12: parsing, dropping, normalizing, capitalizing and then repairing a raw
\* cue list yields the surviving cues, ordered by startTime, each ending at
\* the next one's startTime; the raw cues ("&amp;hi", 2, 1), ("bye", 1, 0.5)
\* yield ("Bye", 1, 2), ("&Hi", 2, 3).
C12_ComposedPipeline ==
    stage = "repaired" =>
        /\ Len(fixedSubtitles) = Len(composed)
        /\ \A i \in 1..Len(fixedSubtitles) : fixedSubtitles[i] # Undefined
        /\ \A i \in 1..(Len(fixedSubtitles) - 1) :
              /\ fixedSubtitles[i].startTime <= fixedSubtitles[i + 1].startTime
              /\ fixedSubtitles[i].endTime = fixedSubtitles[i + 1].startTime
        /\ \A i \in 1..Len(composed) :
              \E j \in 1..Len(fixedSubtitles) :
                  /\ fixedSubtitles[j].text = composed[i].text
                  /\ fixedSubtitles[j].startTime = composed[i].startTime
        /\ textNodes = ExampleNodes => fixedSubtitles = ExampleResult

-----------------------------------------------------------------------------
(* Properties of the timing repairer *)

Returned == calls >= 1
NonEmptyInput == subtitles # Null /\ Len(subtitles.array) >= 1

\* the position record i of s takes when s is ordered by startTime, records
\* with equal startTime staying in their order
Rank(s, i) ==
    Cardinality({j \in 1..Len(s) :
                    \/ s[j].startTime < s[i].startTime
                    \/ s[j].startTime = s[i].startTime /\ j <= i})

StableSorted(s) ==
    [k \in 1..Len(s) |-> s[CHOOSE i \in 1..Len(s) : Rank(s, i) = k]]

\* the texts of the records of s that start at t, in the order they have in s
TextsAt(s, t) ==
    LET at == SelectSeq(s, LAMBDA r : r.startTime = t)
    IN [k \in 1..Len(at) |-> at[k].text]

\* how many records of s have text x and startTime t
CountOf(s, x, t) ==
    Cardinality({j \in 1..Len(s) : s[j].text = x /\ s[j].startTime = t})

\* C2: on a non-empty array, every record of the result ends where the next
\* record of the result starts.
C2_Adjacency ==
    (Returned /\ NonEmptyInput) =>
        \A i \in 1..(Len(fixedSubtitles) - 1) :
            fixedSubtitles[i].endTime = fixedSubtitles[i + 1].startTime

C2_Witness ==
    /\ Returned /\ NonEmptyInput
    /\ Len(subtitles.array) >= 3
    /\ subtitles.array[1].startTime > subtitles.array[2].startTime
    /\ subtitles.array[1].endTime # subtitles.array[2].startTime
    /\ \E i \in 1..Len(fixedSubtitles) :
          fixedSubtitles[i].endTime # StableSorted(subtitles.array)[i].endTime

\* C3: for any argument, the result is in ascending order of startTime.
C3_Sorted ==
    Returned =>
        \A i, j \in 1..Len(fixedSubtitles) :
            i < j => fixedSubtitles[i].startTime <= fixedSubtitles[j].startTime

C3_Witness ==
    /\ Returned /\ NonEmptyInput
    /\ Len(subtitles.array) >= 3
    /\ subtitles.array[1].startTime > subtitles.array[2].startTime
    /\ subtitles.array[2].startTime > subtitles.array[3].startTime

\* C4: the result is the empty array when the argument is the empty array
\* and when it is null.
C4_EmptyOrNull ==
    (Returned /\ (subtitles = Null \/ subtitles = Array(<<>>))) =>
        fixedSubtitles = <<>>

\* C5: the result has as many records as the argument, and the same (text,
\* startTime) pairs with the same multiplicities.
C5_LengthAndContent ==
    (Returned /\ subtitles # Null) =>
        /\ Len(fixedSubtitles) = Len(subtitles.array)
        /\ \A x \in Texts, t \in Times :
              CountOf(fixedSubtitles, x, t) = CountOf(subtitles.array, x, t)

\* C6: the last record of the result has the endTime that the argument's
\* record with the greatest startTime (the last of them, on a tie) came with.
C6_LastPreserved ==
    (Returned /\ NonEmptyInput) =>
        LET in == subtitles.array
            last == CHOOSE i \in 1..Len(in) : Rank(in, i) = Len(in)
        IN fixedSubtitles[Len(fixedSubtitles)].endTime = in[last].endTime

C6_Witness ==
    /\ Returned /\ NonEmptyInput
    /\ Len(subtitles.array) >= 2
    /\ subtitles.array[1].startTime > subtitles.array[2].startTime
    /\ subtitles.array[1].endTime # subtitles.array[1].startTime
    /\ subtitles.array[1].endTime # subtitles.array[Len(subtitles.array)].endTime
    /\ fixedSubtitles[Len(fixedSubtitles)].endTime = subtitles.array[1].endTime

\* C7: for every array of records, the empty one included, repairing the
\* result again returns the result.
C7_Idempotent ==
    (calls = 2 /\ subtitles # Null) => refixedSubtitles = fixedSubtitles

C7_Witness ==
    /\ calls = 2 /\ NonEmptyInput
    /\ Len(subtitles.array) >= 3
    /\ subtitles.array[1].startTime = subtitles.array[3].startTime
    /\ subtitles.array[1].text # subtitles.array[3].text
    /\ subtitles.array[2].startTime < subtitles.array[1].startTime
    /\ fixedSubtitles # subtitles.array
    /\ refixedSubtitles = fixedSubtitles

\* C8: records with the same startTime come out in the order they went in.
C8_Stable ==
    (Returned /\ NonEmptyInput) =>
        \A t \in Times :
            TextsAt(fixedSubtitles, t) = TextsAt(subtitles.array, t)

C8_Witness ==
    /\ Returned /\ NonEmptyInput
    /\ Len(subtitles.array) >= 3
    /\ subtitles.array[1].startTime = subtitles.array[3].startTime
    /\ subtitles.array[1].text # subtitles.array[3].text
    /\ subtitles.array[2].startTime < subtitles.array[1].startTime
    /\ fixedSubtitles[2].text = subtitles.array[1].text
    /\ fixedSubtitles[3].text = subtitles.array[3].text

\* C9: the result is the sorted argument with nothing changed but the endTime
\* of the records before the last, which is the next record's startTime; an
\* array of one record comes back as that record.
C9_Frame ==
    (Returned /\ NonEmptyInput) =>
        LET sorted == StableSorted(subtitles.array)
            n == Len(sorted)
        IN /\ Len(fixedSubtitles) = n
           /\ \A i \in 1..n :
                 /\ fixedSubtitles[i].text = sorted[i].text
                 /\ fixedSubtitles[i].startTime = sorted[i].startTime
                 /\ i < n => fixedSubtitles[i].endTime = sorted[i + 1].startTime
           /\ fixedSubtitles[n] = sorted[n]
           /\ n = 1 => fixedSubtitles = subtitles.array

C9_Witness ==
    /\ Returned /\ NonEmptyInput
    /\ Len(subtitles.array) >= 2
    /\ subtitles.array[1].text # subtitles.array[2].text
    /\ subtitles.array[1].startTime > subtitles.array[2].startTime
    /\ fixedSubtitles[1].endTime # subtitles.array[2].endTime
    /\ fixedSubtitles[1].text = subtitles.array[2].text

C9_WitnessSingle ==
    /\ Returned /\ NonEmptyInput
    /\ Len(subtitles.array) = 1
    /\ fixedSubtitles = subtitles.array


-----------------------------------------------------------------------------
(* Specification of the normalizer: a raw text is cleaned by              *)
(* cleanSubtitleText and the result is capitalized, as getSubtitles does  *)
(* for the text of each node.                                             *)

MaxPieces == 3          \* most pieces a raw text drawn as an input is made of

\* what the raw texts are made of: plain characters, white space, entities
\* (known, unknown, numeric) and backslash escapes (octal and not)
Pieces ==
    { Str(<<"a">>), Str(<<"B">>), Str(<<" ">>), Str(<<"\\">>),
      Str(<<"1", "0", "1">>),
      Str(<<"&", "a", "m", "p", ";">>), Str(<<"&", "z", "z", ";">>),
      Str(<<"&", "n", "b", "s", "p", ";">>), Str(<<"&", "#", "9", "2", ";">>),
      Str(<<"\\", "1", "4", "1", "b">>), Str(<<"\\", "3", "0", "3", "A">>),
      Str(<<"\\", "8", "0", "3", "A">>) }

RECURSIVE Concat(_)
Concat(pieces) ==
    IF Len(pieces) = 0 THEN <<>>
    ELSE pieces[1] \o Concat(SubSeq(pieces, 2, Len(pieces)))

NormalizeInit ==
    /\ \E k \in 0..MaxPieces : \E pieces \in [1..k -> Pieces] :
          rawText = Concat(pieces)
    /\ entitiesDecoded = NotCalled
    /\ octalRepaired = NotCalled
    /\ cleanedText = NotCalled
    /\ capitalizedText = NotCalled
    /\ phase = "raw"
    /\ PollIdle
    /\ RepairIdle
    /\ ComposeIdle

\* cleanSubtitleText(text), with the text after each of its two replaces
CleanSubtitleText ==
    /\ phase = "raw"
    /\ entitiesDecoded' = replaceEntities(rawText, 1)
    /\ octalRepaired' = replaceOctal(replaceEntities(rawText, 1), 1)
    /\ cleanedText' = cleanSubtitleText(rawText)
    /\ phase' = "cleaned"
    /\ UNCHANGED <<rawText, capitalizedText>>
    /\ UNCHANGED <<repairVars, callerVars, pollVars, composeVars>>

\* cleanSubtitleText(...).capitalize()
Capitalize ==
    /\ phase = "cleaned"
    /\ capitalizedText' = capitalize(cleanedText)
    /\ phase' = "capitalized"
    /\ UNCHANGED <<rawText, entitiesDecoded, octalRepaired, cleanedText>>
    /\ UNCHANGED <<repairVars, callerVars, pollVars, composeVars>>

NormalizeNext == CleanSubtitleText \/ Capitalize

SpecNormalize == NormalizeInit /\ [][NormalizeNext]_vars

-----------------------------------------------------------------------------
(* Properties of the normalizer *)

\* a backslash, three decimal digits and a letter, from index i of s on
IsEscape(s, i) ==
    /\ i + 4 <= Len(s)
    /\ s[i] = 92
    /\ \A k \in 1..3 : s[i + k] \in 48..57
    /\ s[i + 4] \in (65..90) \cup (97..122)

\* an escape whose three digits are octal digits
IsOctalEscape(s, i) ==
    IsEscape(s, i) /\ \A k \in 1..3 : s[i + k] \in 48..55

\* an entity from index i of s on whose name is no known name, starts with
\* none and is no number
IsUnknownEntity(s, i) ==
    /\ EntityMatch(s, i) > 0
    /\ s[i + 1] # 35
    /\ \A ref \in NamedReferences :
          \/ Len(ref.name) > EntityMatch(s, i) - 2
          \/ SubSeq(s, i + 1, i + Len(ref.name)) # ref.name

\* C13: the normalizer never fails and leaves every unrecognized entity and
\* every malformed backslash escape (a backslash, three digits with an 8 or a
\* 9 among them, and a letter included) as it was written: a text whose
\* entities are all unknown and whose escapes are all malformed comes back
\* trimmed and otherwise unchanged.
C13_PassThrough ==
    ( /\ phase # "raw"
      /\ \A i \in 1..Len(rawText) :
            /\ EntityMatch(rawText, i) > 0 => IsUnknownEntity(rawText, i)
            /\ ~IsOctalEscape(rawText, i) ) =>
        cleanedText = trim(rawText)

\* the matches of the octal-repair pattern in s that start before index i
EscapesBefore(s, i) == {m \in 1..(i - 1) : IsEscape(s, m)}

\* where the character at index i of s is in the repaired text: each match
\* before it is three characters shorter there
Repaired(s, i) == i - 3 * Cardinality(EscapesBefore(s, i))

\* is index i of s after the first character of a match of the pattern
InsideEscape(s, i) == \E m \in EscapesBefore(s, i) : i <= m + 4

IsTrimmed(c) ==
    c \in {9, 10, 11, 12, 13, 32, 160, 5760, 8232, 8233, 8239, 8287, 12288, 65279}
        \cup (8192..8202)

\* the uppercase form of a code unit that has one code unit as its uppercase
\* form
UpperCaseOf(c) ==
    IF c \in 97..122 \/ (c \in 224..254 /\ c # 247) THEN c - 32 ELSE c

\* C15: the normalized and capitalized text has no white space at either end;
\* its first character is the uppercase form of the first character of the
\* decoded text without the white space at its ends, the rest is that text's
\* rest, and the empty text gives the empty text.
C15_TrimmedAndCapitalized ==
    phase = "capitalized" =>
        LET d == octalRepaired
            kept == {j \in 1..Len(d) : ~IsTrimmed(d[j])}
            first == CHOOSE j \in kept : \A o \in kept : j <= o
            last == CHOOSE j \in kept : \A o \in kept : o <= j
        IN /\ rawText = <<>> => capitalizedText = <<>>
           /\ kept = {} => capitalizedText = <<>>
           /\ kept # {} =>
                 /\ Len(capitalizedText) = last - first + 1
                 /\ capitalizedText[1] = UpperCaseOf(d[first])
                 /\ \A j \in 2..Len(capitalizedText) :
                       capitalizedText[j] = d[first + j - 1]
                 /\ ~IsTrimmed(capitalizedText[1])
                 /\ ~IsTrimmed(capitalizedText[Len(capitalizedText)])

\* a text with white space at both ends, one end's from an entity, whose
\* first character after it is a small letter
C15_Witness ==
    /\ phase = "capitalized"
    /\ Len(octalRepaired) >= 3
    /\ IsTrimmed(octalRepaired[1])
    /\ octalRepaired[Len(octalRepaired)] = 160
    /\ Len(capitalizedText) = Len(octalRepaired) - 2
    /\ octalRepaired[2] = 97
    /\ capitalizedText[1] = 65

-----------------------------------------------------------------------------
(* Properties of getFixedSubtitles for several callers *)

C18_NoNegativeButLast ==
    (Returned /\ NonEmptyInput) =>
        \A i \in 1..(Len(fixedSubtitles) - 1) :
            fixedSubtitles[i].endTime >= fixedSubtitles[i].startTime

\* every record of the argument has an endTime below its startTime; in the
\* result only the last one has
C18_Witness ==
    /\ Returned
    /\ NonEmptyInput
    /\ Len(subtitles.array) >= 2
    /\ \A i \in 1..Len(subtitles.array) :
          subtitles.array[i].endTime < subtitles.array[i].startTime
    /\ subtitles.array[1].startTime > subtitles.array[2].startTime
    /\ fixedSubtitles[Len(fixedSubtitles)].endTime
          < fixedSubtitles[Len(fixedSubtitles)].startTime

-----------------------------------------------------------------------------
(* Properties of the poller's runs *)

\* the steps between the comparison of the ids and the write of the id
StepsBeforePersist ==
    {"getSubtitles", "downloadVideo", "addSubtitlesToVideo", "uploadVideoToTelegram"}

\* C17: a run of checkAndUploadNewVideo persists the last-uploaded id only
\* after its upload to the channel has returned: a run in which fetching the
\* subtitles, downloading, muxing or uploading failed is over, has not
\* called setLastUploadedVideoId and has not written the id.
C17_PersistedOnlyAfterUpload ==
    \A r \in Run :
        /\ runs[r].persisted => runs[r].uploaded
        /\ runs[r].pc = "setLastUploadedVideoId" =>
              runs[r].uploaded /\ runs[r].failedAt = "none"
        /\ runs[r].failedAt \in StepsBeforePersist =>
              runs[r].pc = "done" /\ ~runs[r].persisted

\* one run's upload failed and it left the table as it was; another run's
\* upload returned and it has written the id
C17_Witness ==
    \E r, q \in Run :
        /\ runs[r].failedAt = "uploadVideoToTelegram"
        /\ runs[r].pc = "done"
        /\ ~runs[r].persisted
        /\ runs[q].uploaded
        /\ runs[q].persisted
        /\ getLastUploadedVideoId(uploadedVideo) = runs[q].video

-----------------------------------------------------------------------------
(* The poller when the feed keeps reporting v1 and every awaited step       *)
(* succeeds: the timer goes on starting calls for ever, a call that is over *)
(* leaving its place to a later one, and every await settles.               *)

\* the table and the channel that earlier calls can have left: nothing, v1
\* sent without its id written, or an older video sent and written
LiveInit ==
    /\ feed = "v1"
    /\ \E older \in {<<>>, <<"v2">>} : \E sent \in {<<>>, <<"v1">>} :
          /\ uploadedVideo = older
          /\ channel = older \o sent
    /\ runs = [r \in Run |-> IdleRun]
    /\ RepairIdle
    /\ ComposeIdle
    /\ NormalizeIdle

LiveStep(r, from, to) ==
    /\ runs[r].pc = from
    /\ Goto(r, to)
    /\ UNCHANGED <<feed, uploadedVideo, channel>>
    /\ UNCHANGED <<repairVars, callerVars, composeVars, normalizeVars>>

\* setInterval(checkAndUploadNewVideo, 60 * 60 * 1000), and the call in main
Poll(r) ==
    /\ runs[r].pc \in {"idle", "done"}
    /\ runs' = [runs EXCEPT ![r] = [IdleRun EXCEPT !.pc = "getLatestFireshipVideo"]]
    /\ UNCHANGED <<feed, uploadedVideo, channel>>
    /\ UNCHANGED <<repairVars, callerVars, composeVars, normalizeVars>>

\* const video = await getLatestFireshipVideo()
LatestFetched(r) ==
    /\ runs[r].pc = "getLatestFireshipVideo"
    /\ runs' = [runs EXCEPT ![r].video = feed, ![r].pc = "getLastUploadedVideoId"]
    /\ UNCHANGED <<feed, uploadedVideo, channel>>
    /\ UNCHANGED <<repairVars, callerVars, composeVars, normalizeVars>>

\* const lastUploadedVideoId = await getLastUploadedVideoId();
\* if (video.id === lastUploadedVideoId) return;
LastIdRead(r) ==
    /\ runs[r].pc = "getLastUploadedVideoId"
    /\ LET last == getLastUploadedVideoId(uploadedVideo)
       IN runs' = [runs EXCEPT
                     ![r].lastUploadedVideoId = last,
                     ![r].pc = IF runs[r].video = last THEN "done"
                               ELSE "getSubtitles"]
    /\ UNCHANGED <<feed, uploadedVideo, channel>>
    /\ UNCHANGED <<repairVars, callerVars, composeVars, normalizeVars>>

SubtitlesFetched(r) == LiveStep(r, "getSubtitles", "downloadVideo")

VideoDownloaded(r) == LiveStep(r, "downloadVideo", "addSubtitlesToVideo")

SubtitlesAdded(r) == LiveStep(r, "addSubtitlesToVideo", "uploadVideoToTelegram")

\* await uploadVideoToTelegram(...) returns: the message is sent
VideoUploaded(r) ==
    /\ runs[r].pc = "uploadVideoToTelegram"
    /\ channel' = Append(channel, runs[r].video)
    /\ runs' = [runs EXCEPT ![r].pc = "setLastUploadedVideoId",
                             ![r].uploaded = TRUE]
    /\ UNCHANGED <<feed, uploadedVideo>>
    /\ UNCHANGED <<repairVars, callerVars, composeVars, normalizeVars>>

\* await setLastUploadedVideoId(video.id) returns: the id is written
LastIdWritten(r) ==
    /\ runs[r].pc = "setLastUploadedVideoId"
    /\ uploadedVideo' = setLastUploadedVideoId(uploadedVideo, runs[r].video)
    /\ runs' = [runs EXCEPT ![r].pc = "done", ![r].persisted = TRUE]
    /\ UNCHANGED <<feed, channel>>
    /\ UNCHANGED <<repairVars, callerVars, composeVars, normalizeVars>>

RunStep(r) ==
    \/ LatestFetched(r)
    \/ LastIdRead(r)
    \/ SubtitlesFetched(r)
    \/ VideoDownloaded(r)
    \/ SubtitlesAdded(r)
    \/ VideoUploaded(r)
    \/ LastIdWritten(r)

LiveNext ==
    \/ \E r \in Run : Poll(r)
    \/ \E r \in Run : RunStep(r)

\* the timer keeps firing and every await of every call settles
SpecLive ==
    /\ LiveInit
    /\ [][LiveNext]_vars
    /\ WF_vars(\E r \in Run : Poll(r))
    /\ \A r \in Run : WF_vars(RunStep(r))

-----------------------------------------------------------------------------
(* Properties of the poller under fair polling *)

IsPublished(v) == \E i \in 1..Len(channel) : channel[i] = v

IsLastUploaded(v) == getLastUploadedVideoId(uploadedVideo) = v

\* C19: when the feed keeps reporting the same new video and every step
\* succeeds, under fair polling the video is eventually published and its id
\* eventually is the persisted last-uploaded id, and once it is, the polls
\* with that latest video publish nothing.
C19_PublishedThenQuiet ==
    /\ <>IsPublished("v1")
    /\ <>[]IsLastUploaded("v1")
    /\ [][(IsLastUploaded(feed) /\ feed' = feed) => channel' = channel]_vars

====
